---- MODULE Spec2Model ----
(***************************************************************************)
(* FastComms (src/fastcomms.h, src/fastcomms.cpp): a non-blocking serial   *)
(* message framer.  One FastComms object and the serial port it is bound   *)
(* to are modelled.  Arrays are functions over the C indices (0-based);    *)
(* C strings passed by value (messages, payloads, the wire) are sequences  *)
(* of byte values 0..255 without the terminating NUL.                      *)
(***************************************************************************)
EXTENDS Integers, Sequences, FiniteSets, TLC

\* ---------------------------------------------------------------- constants
BUFFER_SIZE == 64
TX_QUEUE_SIZE == 4
MSG_END_A == 13
MSG_END_B == 10
\* "!rx buffer full!"
RX_BUFFER_OVERFLOW ==
  <<33, 114, 120, 32, 98, 117, 102, 102, 101, 114, 32, 102, 117, 108, 108, 33>>
\* "!rx badchecksum!"
RX_BAD_CHECKSUM ==
  <<33, 114, 120, 32, 98, 97, 100, 99, 104, 101, 99, 107, 115, 117, 109, 33>>

\* size of `char buf[64]` and `char sum[10]` in the bad-checksum branch
BUF_LEN == 64
SUM_LEN == 10

\* width of uint8_t
UINT8 == 256

\* pointer values: a slot index 0..TX_QUEUE_SIZE-1, the null pointer, or a
\* pointer that refers to no slot
NullPtr == -1
Garbage == -2
Slots == 0 .. (TX_QUEUE_SIZE - 1)

\* ------------------------------------------------------------- C primitives
Rep(b, n) == [k \in 1..n |-> b]

Min(a, b) == IF a < b THEN a ELSE b

\* a zero-filled char array of n bytes (static storage)
ZeroArray(n) == [k \in 0..(n - 1) |-> 0]

\* strlen of the C string held in array a: index of the first NUL
ArrLen(a) ==
  LET n == Cardinality(DOMAIN a)
  IN  IF \E k \in 0..(n - 1) : a[k] = 0
      THEN CHOOSE k \in 0..(n - 1) : a[k] = 0 /\ \A j \in 0..(k - 1) : a[j] # 0
      ELSE n

\* the C string held in array a, as a sequence
CStr(a) == [k \in 1..ArrLen(a) |-> a[k - 1]]

\* strcpy(dst, src): the bytes of src, then a NUL; the rest of dst is kept
StrCpy(dst, src) ==
  [k \in DOMAIN dst |->
     IF k < Len(src) THEN src[k + 1] ELSE IF k = Len(src) THEN 0 ELSE dst[k]]

\* dst[0] = '\0'; strncat(dst, src, n): at most n bytes of src, then a NUL
StrNCat0(dst, src, n) == StrCpy(dst, SubSeq(src, 1, Min(Len(src), n)))

\* faulty variant: the byte is taken without its top bit
CharToIntLow7(b) == b % 128

\* a char of the AVR build is signed: the int value of byte b
CharToInt(b) == IF b >= 128 THEN b - UINT8 ELSE b

\* decimal digits of n >= 0, as sprintf("%d") prints them
RECURSIVE Decimal(_)
Decimal(n) ==
  IF n < 10 THEN <<48 + n>> ELSE Decimal(n \div 10) \o <<48 + (n % 10)>>

\* sprintf(buf, "!%s", data)
BangStr(data) == <<33>> \o data

\* sprintf(sum, "!got [%d]", rxsum)
GotStr(rxsum) == <<33, 103, 111, 116, 32, 91>> \o Decimal(rxsum) \o <<93>>

\* ----------------------------------------------------------------- checkSum
\* what the loop sum = sum + msg[i] adds to the uint8_t sum over the bytes
\* lo..hi of msg; the range is split in halves, addition modulo 256 being
\* associative
RECURSIVE CheckSumFrom(_, _, _)
CheckSumFrom(msg, lo, hi) ==
  IF lo > hi THEN 0
  ELSE IF lo = hi THEN CharToInt(msg[lo]) % UINT8
  ELSE CHOOSE sum \in
         {(CheckSumFrom(msg, lo, mid) + CheckSumFrom(msg, mid + 1, hi))
            % UINT8 : mid \in {(lo + hi) \div 2}} : TRUE

checkSum(msg) == CheckSumFrom(msg, 1, Len(msg))

\* ------------------------------------------------------------------ sendMsg
\* q is the outbound side of the object: [out, ob, obi, o], with the
\* history of the accepted messages (acc) and the last return value (ret).
\* faulty variant: the bound is off by one
QueueHasRoomOffByOne(o) == o <= TX_QUEUE_SIZE

QueueHasRoom(o) == o < TX_QUEUE_SIZE

\* uint8_t l = strlen(msg)
MsgLen8(msg) == Len(msg) % UINT8

FitsBuffer(l) == l < BUFFER_SIZE

\* faulty variant: the slot pointer does not advance
NextSlotSame(obi) == obi

NextSlot(obi) == IF obi < TX_QUEUE_SIZE - 1 THEN obi + 1 ELSE 0

sendMsg(q, msg) ==
  IF QueueHasRoom(q.o)
  THEN IF FitsBuffer(MsgLen8(msg))
       THEN [out |-> [q.out EXCEPT ![q.o] = q.obi],
             ob  |-> [q.ob EXCEPT ![q.obi] = StrNCat0(@, msg, BUFFER_SIZE - 1)],
             o   |-> q.o + 1,
             obi |-> NextSlot(q.obi),
             acc |-> Append(q.acc, msg),
             ret |-> 1]
       ELSE [q EXCEPT !.ret = -2]
  ELSE [q EXCEPT !.ret = -1]

\* -------------------------------------------------------------------- state
VARIABLES
  \* the members of the FastComms object
  _useChecksum, _port, _msg, _in, _i, _rx, _msgHandler,
  _out, _ob, _obi, _o, _txb, _txlen,
  \* the serial port and the application around the object
  scn,        \* the scenario of the run (fixed): what the peer and the
              \* application do
  arrived,    \* number of the peer's bytes that have reached the port
  rxRead,     \* number of inbound bytes read() has returned
  wire,       \* every byte write() was given, in order
  txScript,   \* messages the application still passes to sendMsg
  \* observations
  accepted,   \* messages for which sendMsg returned 1, in order
  lastRet,    \* return value of the application's sendMsg call, if the last
              \* step was one (0 otherwise)
  ready,      \* getMsg() at each txrx call that returned true, in order
  nTrue,      \* number of txrx calls that returned true
  nAccept,    \* number of frames the receive path accepted
  oob,        \* arrays that have been accessed outside their bounds
  tick,       \* what the txrx call did, if the last step was one
  \* the application's own use of checkSum
  sumArg,     \* the bytes of the buffer last passed to checkSum
  sumRet      \* what that call returned

objVars == <<_useChecksum, _port, _msg, _in, _i, _rx, _msgHandler,
             _out, _ob, _obi, _o, _txb, _txlen>>
envVars == <<scn, arrived, rxRead, wire, txScript>>
obsVars == <<accepted, lastRet, ready, nTrue, nAccept, oob, tick>>
sumVars == <<sumArg, sumRet>>
vars == <<objVars, envVars, obsVars, sumVars>>

NullPort == "nullptr"
SerialPort == "Serial"

\* the bytes the port receives: the peer's, or, when the port's TX line is
\* wired to its RX line, the bytes the object wrote
Input == IF scn.loop THEN wire ELSE scn.rx

\* _port->available(): a looped-back byte is readable once written
Available == IF scn.loop THEN Len(wire) - rxRead ELSE arrived - rxRead

\* ---------------------------------------------------------------- txrx: RX
\* MSG_END_B was just stored at _in[i] and MSG_END_A precedes it
IsBoundary(inb, i) == i > 0 /\ inb[i] = MSG_END_B /\ inb[i - 1] = MSG_END_A

\* the frame carries a checksum byte that is to be verified
VerifiesChecksum(useChecksum, i) == useChecksum /\ i > 2

\* faulty variant: read() is called although no byte is waiting
BytesWaitingAlways(avail) == avail >= 0

\* _port->available() > 0
BytesWaiting(avail) == avail > 0

\* faulty variant: the buffer counts as full one byte early
RxHasRoomEarly(i) == i < BUFFER_SIZE - 1

\* the receive buffer has room for one more byte
RxHasRoom(i) == i < BUFFER_SIZE

\* a good message: raise _rx, copy it to _msg, call the handler if any
\* (msg is _msg after the strcpy, a value computed once)
RxAccept(r, payload) ==
  CHOOSE res \in
    {[r EXCEPT !.rx = TRUE,
               !.msg = msg,
               !.handled = IF _msgHandler THEN <<CStr(msg)>> ELSE <<>>,
               !.kind = "accept"] : msg \in {StrCpy(r.msg, payload)}} : TRUE

\* the three warnings of the bad-checksum branch
RxBadChecksum(r, data, rxsum) ==
  LET q1 == sendMsg(r.q, RX_BAD_CHECKSUM)
      q2 == sendMsg(q1, BangStr(data))
      q3 == sendMsg(q2, GotStr(rxsum))
  IN  [r EXCEPT !.q = q3,
                !.kind = "badsum",
                !.oob = @ \cup (IF Len(BangStr(data)) + 1 > BUF_LEN
                                THEN {"buf"} ELSE {})
                          \cup (IF Len(GotStr(rxsum)) + 1 > SUM_LEN
                                THEN {"sum"} ELSE {})]

\* the branch that verifies the checksum of the frame ending at _in[i].
\* strcpy(data, _in) writes ArrLen+1 bytes into data[BUFFER_SIZE - 3]; when
\* that is one byte too many the stray NUL lands either on dead storage
\* (ub = "none") or on the neighbouring local rxsum (ub = "rxsum").
RxChecksummed(r, i, ub) ==
  LET rxsum0 == r.in[i - 2]
      in2 == [r.in EXCEPT ![i - 2] = 0]
      Verify(data) ==
        LET over == Len(data) + 1 > BUFFER_SIZE - 3
            rxsum == IF over /\ ub = "rxsum" THEN 0 ELSE rxsum0
            r1 == [r EXCEPT !.in = in2,
                            !.oob = IF over THEN @ \cup {"data"} ELSE @]
        IN  IF rxsum = checkSum(data)
            THEN RxAccept(r1, data)
            ELSE RxBadChecksum(r1, data, rxsum)
  IN  CHOOSE res \in {Verify(data) : data \in {CStr(in2)}} : TRUE

\* the branch that takes the frame without verifying a checksum
RxPlain(r, i) ==
  LET in2 == [r.in EXCEPT ![i - 1] = 0]
  IN  CHOOSE res \in
        {RxAccept([r EXCEPT !.in = in2], data) : data \in {CStr(in2)}} : TRUE

\* the RX half of txrx; hasByte is available() > 0 and b the byte read()
\* returns.  The result r holds the members RX may change and what it did.
RxPart(hasByte, b, ub) ==
  LET r0 == [in |-> _in, i |-> _i, rx |-> _rx, msg |-> _msg,
             q |-> [out |-> _out, ob |-> _ob, obi |-> _obi, o |-> _o,
                    acc |-> accepted, ret |-> 0],
             read |-> 0, handled |-> <<>>, kind |-> "idle", oob |-> oob]
  IN  IF RxHasRoom(_i)
      THEN IF hasByte
           THEN LET r1 == [r0 EXCEPT !.in = [_in EXCEPT ![_i] = b],
                                     !.read = 1, !.kind = "byte"]
                IN  IF IsBoundary(r1.in, _i)
                    THEN LET r2 == IF VerifiesChecksum(_useChecksum, _i)
                                   THEN RxChecksummed(r1, _i, ub)
                                   ELSE RxPlain(r1, _i)
                         IN  [r2 EXCEPT !.i = 0]
                    ELSE [r1 EXCEPT !.i = _i + 1]
           ELSE r0
      ELSE [r0 EXCEPT !.i = 0,
                      !.q = sendMsg(r0.q, RX_BUFFER_OVERFLOW),
                      !.kind = "overflow"]

\* ---------------------------------------------------------------- txrx: TX
\* bytes to transmit for the head message
TxLen(q, useChecksum) ==
  (ArrLen(q.ob[q.out[0]]) + (IF useChecksum THEN 3 ELSE 2)) % UINT8

\* the byte write() is given when bytes_left bytes of the frame remain
TxByte(q, txb, bytes_left, useChecksum) ==
  IF useChecksum
  THEN IF bytes_left <= 3
       THEN IF bytes_left = 3 THEN checkSum(CStr(q.ob[q.out[0]]))
            ELSE IF bytes_left = 2 THEN MSG_END_A ELSE MSG_END_B
       ELSE q.ob[q.out[0]][txb]
  ELSE IF bytes_left <= 2
       THEN IF bytes_left = 2 THEN MSG_END_A ELSE MSG_END_B
       ELSE q.ob[q.out[0]][txb]

\* for (_m = 1; _m <= _o; _m++) _out[_m - 1] = _out[_m];
\* _out[TX_QUEUE_SIZE] lies outside the array: the read yields g
ShiftOut(out, o, g) ==
  [k \in DOMAIN out |->
     IF k < o THEN (IF k + 1 < TX_QUEUE_SIZE THEN out[k + 1] ELSE g)
     ELSE out[k]]

\* faulty variant: one byte too many is sent before the dequeue
TxPendingInclusive(txb, txlen) == txb <= txlen

\* the frame of the head message still has bytes to send
TxPending(txb, txlen) == txb < txlen

\* faulty variant: write() is called although the port has no room
CanWriteAlways(cap) == cap >= 0

\* faulty variant: one free byte of write capacity is not enough
CanWriteTwo(cap) == cap > 1

\* _port->availableForWrite() > 0
CanWrite(cap) == cap > 0

\* the TX half of txrx on the queue q that RX left; cap is
\* availableForWrite().  The result holds the members TX may change and the
\* bytes written.
TxPart(q, cap, g) ==
  LET t0 == [out |-> q.out, o |-> q.o, txb |-> _txb, txlen |-> _txlen,
             written |-> <<>>, oob |-> {}]
  IN  IF q.o > 0
      THEN LET len == IF _txb = 0 /\ _txlen = 0
                      THEN TxLen(q, _useChecksum) ELSE _txlen
               t1 == [t0 EXCEPT !.txlen = len]
           IN  IF TxPending(_txb, len)
               THEN IF CanWrite(cap)
                    THEN [t1 EXCEPT
                            !.written =
                               <<TxByte(q, _txb, len - _txb, _useChecksum)>>,
                            !.txb = (_txb + 1) % UINT8]
                    ELSE t1
               ELSE [t1 EXCEPT !.out = ShiftOut(q.out, q.o, g),
                               !.o = q.o - 1,
                               !.txlen = 0,
                               !.txb = 0,
                               !.oob = IF q.o >= TX_QUEUE_SIZE
                                       THEN {"_out"} ELSE {}]
      ELSE t0

\* -------------------------------------------------------------- environment
\* most inbound bytes the port buffers unread
MaxAvail == 2
\* longest payload of the exhaustively enumerated short payloads
MaxShort == 2

ShortAlphabet == {MSG_END_A, MSG_END_B, 97, 253}

ShortSeqs == UNION {[1..n -> ShortAlphabet] : n \in 0..MaxShort}

\* MSG_END_A MSG_END_B occurs contiguously inside P
HasTerminator(P) ==
  \E k \in 1..(Len(P) - 1) : P[k] = MSG_END_A /\ P[k + 1] = MSG_END_B

\* a scenario: the mode init is called with (cks), the bytes the peer sends
\* (rx), the messages the application sends (tx), whether the port is looped
\* back (loop), and who goes first (order): "send" when the peer is silent
\* until the application has made its calls, "recv" when the application
\* waits until the peer's bytes are read, "free" otherwise; and the most
\* availableForWrite() ever reports (wcap; 0 for a stalled line).
Scn(cks, rx, tx, loop, order, wcap) ==
  [cks |-> cks, rx |-> rx, tx |-> tx, loop |-> loop, order |-> order,
   wcap |-> wcap]

\* one payload sent through a looped-back port, in either mode
LoopScenarios ==
  {Scn(c, <<>>, <<P>>, TRUE, "free", 1) :
     c \in BOOLEAN, P \in {S \in ShortSeqs : ~HasTerminator(S)}}
    \cup {Scn(TRUE, <<>>, <<Rep(97, BUFFER_SIZE - 3)>>, TRUE, "free", 1),
          Scn(FALSE, <<>>, <<Rep(97, BUFFER_SIZE - 2)>>, TRUE, "free", 1)}

\* byte streams a peer sends
GoodStreams ==
  { <<104, 105, 13, 10>>,             \* "hi" CR LF
    <<97, 98, 195, 13, 10>>,          \* "ab" with its checksum
    <<97, 0, 98, 13, 10>>,            \* a NUL inside the payload
    <<13, 10, 10, 13, 10>> }          \* an empty frame, then a one-byte frame
BadStreams ==
  { <<97, 98, 0, 13, 10>>,            \* "ab" with checksum byte 0
    <<97, 200, 13, 10>> }             \* "a" with checksum byte 200
Overflowing == Rep(97, BUFFER_SIZE) \o <<98, 13, 10>>

\* messages the application sends
TwoShort == << <<97>>, <<98>> >>
FiveShort == << <<97>>, <<>>, <<98>>, <<97>>, <<98>> >>
LongMsgs ==
  {Rep(97, n) : n \in {BUFFER_SIZE - 1, BUFFER_SIZE, UINT8 - 1, UINT8}}

PeerScenarios ==
  {Scn(c, r, <<>>, FALSE, "free", 1) :
     c \in BOOLEAN, r \in GoodStreams \cup BadStreams \cup {Overflowing}}
    \cup {Scn(c, <<>>, FiveShort, FALSE, "free", 1) : c \in BOOLEAN}
    \cup {Scn(c, <<>>, <<m>>, FALSE, "free", 1) : c \in BOOLEAN, m \in LongMsgs}
    \cup {Scn(TRUE, r, TwoShort, FALSE, o, 1) :
            r \in BadStreams, o \in {"send", "recv"}}
    \cup {Scn(FALSE, Overflowing, FiveShort, FALSE, "send", 0)}

Scenarios == LoopScenarios \cup PeerScenarios

NoTick ==
  [ret |-> FALSE, read |-> 0, wrote |-> 0, handled |-> <<>>, oRx |-> 0,
   cap |-> 0, diag |-> 0, kind |-> "none"]

\* ---------------------------------------------------------------------- Init
\* the object after construction (static storage: members without an
\* initialiser are zero), an idle port, and the scenario of the run
Init ==
  /\ _useChecksum = FALSE
  /\ _port = NullPort
  /\ _msg = ZeroArray(BUFFER_SIZE)
  /\ _in = ZeroArray(BUFFER_SIZE)
  /\ _i = 0
  /\ _rx = FALSE
  /\ _msgHandler = FALSE
  /\ _out = [k \in Slots |-> NullPtr]
  /\ _ob = [k \in Slots |-> ZeroArray(BUFFER_SIZE)]
  /\ _obi = 0
  /\ _o = 0
  /\ _txb = 0
  /\ _txlen = 0
  /\ scn \in Scenarios
  /\ txScript = scn.tx
  /\ arrived = 0
  /\ rxRead = 0
  /\ wire = <<>>
  /\ accepted = <<>>
  /\ lastRet = 0
  /\ ready = <<>>
  /\ nTrue = 0
  /\ nAccept = 0
  /\ oob = {}
  /\ tick = NoTick
  /\ sumArg = <<>>
  /\ sumRet = 0

\* ------------------------------------------------------------------- actions
\* init(baud, useChecksum, port), called from setup() while no port is bound
init(useChecksum, port) ==
  /\ _port = NullPort
  /\ _port' = IF port # NullPort THEN port ELSE _port
  /\ _useChecksum' = useChecksum
  /\ tick' = NoTick
  /\ lastRet' = 0
  /\ UNCHANGED <<_msg, _in, _i, _rx, _msgHandler,
                 _out, _ob, _obi, _o, _txb, _txlen>>
  /\ UNCHANGED <<envVars, accepted, ready, nTrue, nAccept, oob, sumVars>>

\* setMsgHandler(msgHandler): h is TRUE for a function, FALSE for 0
setMsgHandler(h) ==
  /\ _msgHandler' = h
  /\ tick' = NoTick
  /\ lastRet' = 0
  /\ UNCHANGED <<_useChecksum, _port, _msg, _in, _i, _rx,
                 _out, _ob, _obi, _o, _txb, _txlen>>
  /\ UNCHANGED <<envVars, accepted, ready, nTrue, nAccept, oob, sumVars>>

\* the application calls sendMsg with the next message of its script
SendMsg ==
  /\ txScript # <<>>
  /\ scn.order = "recv" => rxRead = Len(scn.rx)
  /\ LET q == sendMsg([out |-> _out, ob |-> _ob, obi |-> _obi, o |-> _o,
                       acc |-> accepted, ret |-> 0], Head(txScript))
     IN  /\ _out' = q.out
         /\ _ob' = q.ob
         /\ _obi' = q.obi
         /\ _o' = q.o
         /\ accepted' = q.acc
         /\ lastRet' = q.ret
  /\ txScript' = Tail(txScript)
  /\ tick' = NoTick
  /\ UNCHANGED <<_useChecksum, _port, _msg, _in, _i, _rx, _msgHandler,
                 _txb, _txlen>>
  /\ UNCHANGED <<scn, arrived, rxRead, wire>>
  /\ UNCHANGED <<ready, nTrue, nAccept, oob, sumVars>>

\* one more byte of the peer reaches the port
Arrive ==
  /\ ~scn.loop
  /\ arrived < Len(scn.rx)
  /\ Available < MaxAvail
  /\ scn.order = "send" => txScript = <<>>
  /\ arrived' = arrived + 1
  /\ tick' = NoTick
  /\ lastRet' = 0
  /\ UNCHANGED <<objVars, scn, rxRead, wire, txScript>>
  /\ UNCHANGED <<accepted, ready, nTrue, nAccept, oob, sumVars>>

\* read() returns -1 when no byte is waiting; stored in a char that is 255
ReadNone == 255

\* the value txrx returns: the _rx flag, which it clears
TxrxReturn(rx) == rx

\* faulty variant: the flag is not cleared on return
RxFlagKept(rx) == rx

\* the _rx flag that txrx leaves behind
RxFlagAfter(rx) == FALSE

\* faulty variant: TX works on the queue as it was before RX ran
TxQueueStale(before, after) == before

\* RX runs first: TX works on the queue as RX left it
TxQueue(before, after) == after

\* txrx(): cap is what availableForWrite() reports, ub and g resolve the
\* out-of-bounds accesses (see RxChecksummed and ShiftOut); r is the one
\* result of the RX half and t the one result of the TX half that follows
Txrx(cap, ub, g) ==
  IF _port = NullPort
  THEN /\ tick' = [NoTick EXCEPT !.kind = "noport"]
       /\ lastRet' = 0
       /\ UNCHANGED <<objVars, envVars>>
       /\ UNCHANGED <<accepted, ready, nTrue, nAccept, oob, sumVars>>
  ELSE \E r \in {RxPart(BytesWaiting(Available),
                          IF Available > 0 THEN Input[rxRead + 1]
                          ELSE ReadNone,
                          ub)} :
       \E t \in {TxPart(TxQueue([out |-> _out, ob |-> _ob, obi |-> _obi,
                                  o |-> _o, acc |-> accepted, ret |-> 0],
                                 r.q), cap, g)} :
       LET ret == TxrxReturn(r.rx)
       IN  /\ _in' = r.in
           /\ _i' = r.i
           /\ _msg' = r.msg
           /\ _rx' = RxFlagAfter(r.rx)
           /\ _ob' = r.q.ob
           /\ _obi' = r.q.obi
           /\ _out' = t.out
           /\ _o' = t.o
           /\ _txb' = t.txb
           /\ _txlen' = t.txlen
           /\ rxRead' = rxRead + r.read
           /\ wire' = wire \o t.written
           /\ accepted' = r.q.acc
           /\ lastRet' = 0
           /\ ready' = IF ret THEN Append(ready, CStr(r.msg)) ELSE ready
           /\ nTrue' = IF ret THEN nTrue + 1 ELSE nTrue
           /\ nAccept' = IF r.kind = "accept" THEN nAccept + 1 ELSE nAccept
           /\ oob' = r.oob \cup t.oob
           /\ tick' = [ret |-> ret, read |-> r.read, wrote |-> Len(t.written),
                       handled |-> r.handled, oRx |-> r.q.o,
                       cap |-> IF r.q.o > 0 THEN cap ELSE 0,
                       diag |-> Len(r.q.acc) - Len(accepted), kind |-> r.kind]
           /\ UNCHANGED <<_useChecksum, _port, _msgHandler>>
           /\ UNCHANGED <<scn, arrived, txScript, sumVars>>

\* the outcomes of strcpy(data, _in) when it can write past data
UbChoices ==
  IF _useChecksum /\ _i = BUFFER_SIZE - 1 THEN {"none", "rxsum"} ELSE {"none"}

\* the values the read of _out[TX_QUEUE_SIZE] can yield when a dequeue is due
PtrChoices ==
  IF _txlen > 0 /\ _txb = _txlen THEN Slots \cup {Garbage} ELSE {Garbage}

Tick == \E cap \in 0..scn.wcap, ub \in UbChoices, g \in PtrChoices : Txrx(cap, ub, g)

\* setup() calls init with the mode of the scenario
Setup == \E port \in {NullPort, SerialPort} : init(scn.cks, port)

SetHandler == \E h \in BOOLEAN : setMsgHandler(h)

Next == Setup \/ SetHandler \/ SendMsg \/ Arrive \/ Tick

Spec == Init /\ [][Next]_vars

\* a txrx call at which the port reports write capacity
TickWritable ==
  \E cap \in 1..scn.wcap, ub \in UbChoices, g \in PtrChoices : Txrx(cap, ub, g)

\* the polling loop calls txrx for ever, and the port reports write capacity
\* at such calls again and again
LiveSpec == Init /\ [][Next]_vars /\ WF_vars(TickWritable)

\* ------------------------------------------------- checkSum by the application
\* longest buffer content the application passes to checkSum
MaxSumLen == 3

\* byte values of those buffers: NUL, and both sides of the sign bit
SumAlphabet == {0, 1, 97, 127, 128, 255}

SumSeqs == UNION {[1..n -> SumAlphabet] : n \in 0..MaxSumLen}

\* the char array that holds the bytes of P followed by a NUL
CArray(P) == [k \in 0..Len(P) |-> IF k < Len(P) THEN P[k + 1] ELSE 0]

\* the application calls checkSum(msg) on a buffer holding P
CheckSum(P) ==
  /\ sumArg' = P
  /\ sumRet' = checkSum(CStr(CArray(P)))
  /\ UNCHANGED <<objVars, envVars, obsVars>>

SumNext == \E P \in SumSeqs : CheckSum(P)

\* the object after construction, in a run whose application sends one
\* empty message at most
SumInit == Init /\ scn = Scn(FALSE, <<>>, << <<>> >>, TRUE, "free", 1)

\* the object and an application that only computes checksums
SumSpec == SumInit /\ [][SumNext]_vars

\* ==================================================================== claims
\* a step that is a txrx call / a call made on a bound port
TxrxStep == tick'.kind # "none"
BoundTxrxStep == tick'.kind \notin {"none", "noport"}

\* a step that is the application's sendMsg call; its argument
SendStep == Len(txScript') < Len(txScript)
SendArg == Head(txScript)

\* sum of the byte values of P
RECURSIVE SumRange(_, _, _)
SumRange(P, lo, hi) ==
  IF lo > hi THEN 0
  ELSE IF lo = hi THEN P[lo]
  ELSE CHOOSE sum \in
         {SumRange(P, lo, mid) + SumRange(P, mid + 1, hi) :
            mid \in {(lo + hi) \div 2}} : TRUE

SumBytes(P) == SumRange(P, 1, Len(P))

\* the frame of message m as the wire format states it
Frame(m, cks) ==
  m \o (IF cks THEN <<SumBytes(m) % 256>> ELSE <<>>) \o <<MSG_END_A, MSG_END_B>>

RECURSIVE Frames(_, _)
Frames(ms, cks) ==
  IF ms = <<>> THEN <<>> ELSE Frame(Head(ms), cks) \o Frames(Tail(ms), cks)

IsPrefix(a, b) == Len(a) <= Len(b) /\ a = SubSeq(b, 1, Len(a))

\* ---------------------------------------------------------------------- C1
\* P is a payload the round trip is claimed for in mode cks
ValidPayload(P, cks) ==
  /\ \A k \in 1..Len(P) : P[k] # 0
  /\ ~HasTerminator(P)
  /\ Len(P) <= (IF cks THEN BUFFER_SIZE - 3 ELSE BUFFER_SIZE - 2)

\* the looped-back run has sent its message and read back every byte
LoopDone ==
  /\ scn.loop /\ _port # NullPort /\ txScript = <<>>
  /\ _o = 0 /\ rxRead = Len(wire)

\* C1: round trip.  A valid payload P is enqueued with sendMsg and every
\* byte txrx writes is fed, in order, to txrx in the same mode starting at
\* inbound index 0: the receiver reports exactly one ready message, and it
\* equals P.
C1_RoundTrip ==
  (scn.loop /\ ValidPayload(scn.tx[1], scn.cks)) =>
     /\ ready \in {<<>>, <<scn.tx[1]>>}
     /\ LoopDone => ready = <<scn.tx[1]>>

\* ---------------------------------------------------------------------- C2
\* C2: outbound FIFO and framing.  The bytes written to the channel are the
\* concatenation, in acceptance order, of the frames (payload, checksum byte
\* in checksum mode, MSG_END_A, MSG_END_B) of the accepted messages: always
\* a prefix of it, and all of it once the queue is empty.
C2_FifoFraming ==
  /\ IsPrefix(wire, Frames(accepted, _useChecksum))
  /\ (_o = 0 /\ _port # NullPort) => wire = Frames(accepted, _useChecksum)

\* ---------------------------------------------------------------------- C3
\* C3: queue bound.  0 <= _o <= TX_QUEUE_SIZE in every state; a sendMsg call
\* made with _o = TX_QUEUE_SIZE returns -1 and leaves the queue size, the
\* entries, the slots, the slot pointer and the transmit cursor unchanged
\* (for the application's call, and for the warnings of the receive path,
\* none of which is then stored).
C3_FullStep ==
  /\ (SendStep /\ _o = TX_QUEUE_SIZE) =>
        /\ lastRet' = -1
        /\ UNCHANGED <<_o, _out, _ob, _obi, _txb, _txlen, accepted>>
  /\ (BoundTxrxStep /\ _o = TX_QUEUE_SIZE) =>
        /\ tick'.diag = 0 /\ tick'.oRx = _o
        /\ UNCHANGED <<_ob, _obi, accepted>>

C3_QueueBound ==
  [](_o \in 0..TX_QUEUE_SIZE) /\ [][C3_FullStep]_vars

\* a sendMsg call has just been refused by a full queue
C3_Witness == lastRet = -1 /\ _o = TX_QUEUE_SIZE

\* ---------------------------------------------------------------------- C4
\* C4: message too large.  For every message of length >= BUFFER_SIZE,
\* however long, sendMsg on a non-full queue returns -2 and leaves the queue
\* size, the entries, the slots and the slot pointer unchanged.
C4_TooLargeStep ==
  (SendStep /\ Len(SendArg) >= BUFFER_SIZE /\ _o < TX_QUEUE_SIZE) =>
     /\ lastRet' = -2
     /\ UNCHANGED <<_o, _out, _ob, _obi, accepted>>

C4_TooLarge == [][C4_TooLargeStep]_vars

\* ---------------------------------------------------------------------- C5
\* C5: every message sendMsg accepts has a frame (message, checksum byte in
\* checksum mode, two terminator bytes) of at most BUFFER_SIZE bytes.
C5_FrameFitsStep ==
  (SendStep /\ lastRet' = 1) =>
     Len(SendArg) + (IF _useChecksum THEN 1 ELSE 0) + 2 <= BUFFER_SIZE

C5_FrameFits == [][C5_FrameFitsStep]_vars

\* ---------------------------------------------------------------------- C6
\* number of overflow notices sendMsg has accepted
NumOverflowNotices ==
  Cardinality({k \in 1..Len(accepted) : accepted[k] = RX_BUFFER_OVERFLOW})

\* the peer's first BUFFER_SIZE bytes hold no MSG_END_A MSG_END_B
OverflowRun ==
  /\ ~scn.loop /\ Len(scn.rx) >= BUFFER_SIZE
  /\ ~HasTerminator(SubSeq(scn.rx, 1, BUFFER_SIZE))

\* C6 as stated: once BUFFER_SIZE boundary-free bytes have been fed from
\* index 0, exactly one overflow notice has been appended, the inbound index
\* is 0 and no message has been emitted.
C6_AsStated ==
  (OverflowRun /\ rxRead = BUFFER_SIZE) =>
     (_i = 0 /\ NumOverflowNotices = 1 /\ nTrue = 0)

\* C6 (amended): once BUFFER_SIZE boundary-free bytes have been fed from
\* index 0 the inbound index is BUFFER_SIZE and nothing has been appended;
\* the next txrx call reads no byte, resets the index to 0 and passes one
\* overflow notice to sendMsg, which appends it unless the queue is full; no
\* message is emitted (no handler call, no true return), and every appended
\* overflow notice accounts for BUFFER_SIZE bytes read.
C6_State ==
  /\ NumOverflowNotices * BUFFER_SIZE <= rxRead
  /\ OverflowRun =>
       /\ rxRead < BUFFER_SIZE =>
            (_i = rxRead /\ NumOverflowNotices = 0 /\ nTrue = 0)
       /\ rxRead = BUFFER_SIZE =>
            /\ nTrue = 0
            /\ \/ _i = BUFFER_SIZE /\ NumOverflowNotices = 0
               \/ _i = 0 /\ NumOverflowNotices <= 1

C6_Step ==
  /\ (BoundTxrxStep /\ _i = BUFFER_SIZE) =>
        /\ tick'.kind = "overflow"
        /\ tick'.read = 0 /\ rxRead' = rxRead
        /\ _i' = 0
        /\ tick'.ret = FALSE /\ tick'.handled = <<>> /\ _msg' = _msg
        /\ tick'.diag = (IF _o < TX_QUEUE_SIZE THEN 1 ELSE 0)
        /\ accepted' = (IF _o < TX_QUEUE_SIZE
                        THEN Append(accepted, RX_BUFFER_OVERFLOW)
                        ELSE accepted)
  /\ (BoundTxrxStep /\ _i < BUFFER_SIZE) => tick'.kind # "overflow"

C6_Overflow == []C6_State /\ [][C6_Step]_vars

\* the overflow tick has just appended its notice
C6_Witness ==
  /\ OverflowRun /\ rxRead = BUFFER_SIZE /\ _i = 0
  /\ tick.kind = "overflow" /\ tick.diag = 1

\* ---------------------------------------------------------------------- C7
\* the first n bytes of the inbound buffer
InPrefix(n) == [k \in 1..n |-> _in[k - 1]]

\* the bytes of P before its first NUL
UpToNul(P) ==
  IF \E k \in 1..Len(P) : P[k] = 0
  THEN SubSeq(P, 1, (CHOOSE k \in 1..Len(P) :
                        P[k] = 0 /\ \A j \in 1..(k - 1) : P[j] # 0) - 1)
  ELSE P

\* the byte txrx reads next completes a frame whose checksum byte differs
\* from the sum of its payload
BadFrameNext ==
  /\ _port # NullPort /\ _useChecksum
  /\ _i > 2 /\ _i < BUFFER_SIZE
  /\ Available > 0 /\ Input[rxRead + 1] = MSG_END_B
  /\ _in[_i - 1] = MSG_END_A
  /\ _in[_i - 2] # SumBytes(InPrefix(_i - 2)) % 256

\* C7: checksum mismatch.  No message is emitted, the inbound index resets
\* to 0, and exactly three entries are appended to the outbound queue: the
\* bad-checksum notice, '!' + payload (as a C string), '!' + the report of
\* the received checksum.
C7_BadChecksumStep ==
  (TxrxStep /\ BadFrameNext) =>
     /\ tick'.ret = FALSE /\ tick'.handled = <<>> /\ _msg' = _msg
     /\ _i' = 0
     /\ tick'.diag = 3
     /\ accepted' = accepted \o <<RX_BAD_CHECKSUM,
                                  <<33>> \o UpToNul(InPrefix(_i - 2)),
                                  GotStr(_in[_i - 2])>>

C7_BadChecksum == [][C7_BadChecksumStep]_vars

\* ---------------------------------------------------------------------- C8
\* the payload of the frame that the byte read next completes
RxPayload ==
  UpToNul(InPrefix(IF _useChecksum /\ _i > 2 THEN _i - 2 ELSE _i - 1))

\* C8: message-ready signalling.  The txrx calls that return true are the
\* calls in which the assembler accepted a frame (so the counts agree); such
\* a call consumed the frame's final terminator byte, called the handler (if
\* any) exactly once with the payload, and leaves getMsg() equal to the
\* payload; the ready flag is false after every return.
C8_Step ==
  /\ TxrxStep => (tick'.ret <=> tick'.kind = "accept")
  /\ (TxrxStep /\ tick'.ret) =>
        /\ tick'.read = 1 /\ _i > 0
        /\ Input[rxRead + 1] = MSG_END_B /\ _in[_i - 1] = MSG_END_A
        /\ tick'.handled = (IF _msgHandler THEN <<RxPayload>> ELSE <<>>)
        /\ CStr(_msg') = RxPayload
        /\ ready' = Append(ready, RxPayload)
  /\ (TxrxStep /\ ~tick'.ret) => (tick'.handled = <<>> /\ ready' = ready)

C8_Ready ==
  [](nTrue = nAccept /\ Len(ready) = nTrue /\ _rx = FALSE) /\ [][C8_Step]_vars

\* a txrx call has just returned true after calling the handler
C8_Witness == tick.ret /\ tick.handled # <<>> /\ nTrue = 2

\* ---------------------------------------------------------------------- C9
\* C9 as stated: a txrx call made with no inbound byte available and an
\* empty outbound queue returns false and changes nothing.
C9_AsStatedStep ==
  (TxrxStep /\ Available = 0 /\ _o = 0) =>
     /\ tick'.ret = FALSE /\ tick'.wrote = 0
     /\ UNCHANGED <<objVars, wire, rxRead, accepted>>

C9_AsStated == [][C9_AsStatedStep]_vars

\* C9 (amended): a txrx call made with no inbound byte available, an empty
\* outbound queue and an inbound index below BUFFER_SIZE (no overflow
\* pending) returns false, writes nothing and changes nothing.
C9_IdleStep ==
  (TxrxStep /\ Available = 0 /\ _o = 0 /\ _i < BUFFER_SIZE) =>
     /\ tick'.ret = FALSE /\ tick'.wrote = 0
     /\ UNCHANGED <<objVars, wire, rxRead, accepted>>

C9_Idle == [][C9_IdleStep]_vars

\* an idle txrx call has just returned in the middle of a frame
C9_Witness ==
  /\ tick.kind = "idle" /\ _port # NullPort
  /\ Available = 0 /\ _o = 0 /\ _i > 0 /\ _i < BUFFER_SIZE

\* --------------------------------------------------------------------- C10
\* C10 as stated: a txrx call made with a non-empty queue (after its
\* receive step) and write capacity writes exactly one byte.
C10_AsStatedStep ==
  (BoundTxrxStep /\ tick'.oRx > 0 /\ tick'.cap > 0) => tick'.wrote = 1

C10_AsStated == [][C10_AsStatedStep]_vars

\* the frame length of the head message
HeadFrameLen == ArrLen(_ob[_out[0]]) + (IF _useChecksum THEN 3 ELSE 2)

\* C10 (amended): a txrx call writes at most one byte; made with a non-empty
\* queue and write capacity it writes exactly one byte while the head frame
\* has unsent bytes, and writes nothing on the call that finds the head
\* frame fully sent: that call dequeues it and resets the cursor.  So a
\* frame of length T takes T such calls, then one dequeue call, and the next
\* frame's first byte goes out on the call after that.
C10_State ==
  /\ _txb <= _txlen
  /\ _o = 0 => (_txb = 0 /\ _txlen = 0)
  /\ _txlen > 0 => (_o > 0 /\ _txlen = HeadFrameLen)

C10_Step ==
  /\ TxrxStep => (tick'.wrote <= 1 /\ Len(wire') = Len(wire) + tick'.wrote)
  /\ (BoundTxrxStep /\ tick'.oRx > 0 /\ tick'.cap > 0) =>
        IF _txlen > 0 /\ _txb = _txlen
        THEN /\ tick'.wrote = 0
             /\ _o' = tick'.oRx - 1 /\ _txb' = 0 /\ _txlen' = 0
        ELSE /\ tick'.wrote = 1
             /\ _o' = tick'.oRx /\ _txb' = _txb + 1 /\ _txlen' > _txb

C10_OneByte == []C10_State /\ [][C10_Step]_vars

\* the dequeue call: queue non-empty, write capacity, nothing written
C10_Witness == tick.oRx > 0 /\ tick.cap > 0 /\ tick.wrote = 0

\* --------------------------------------------------------------------- C11
\* C11 as stated: a txrx call reads every inbound byte that is available
\* when it begins (one read per available byte), so that none of them is
\* left unread when it returns.
C11_AsStatedStep ==
  BoundTxrxStep => (tick'.read = Available /\ rxRead' = rxRead + Available)

C11_AsStated == [][C11_AsStatedStep]_vars

\* C11 (amended): a txrx call reads at most one inbound byte: exactly one
\* when a byte is available and the inbound index is below BUFFER_SIZE, none
\* otherwise.  The byte read is the oldest unread one, it was available
\* before the call wrote its outbound byte, and it is stored at the inbound
\* index; the other bytes available when the call began stay unread.
C11_Step ==
  /\ TxrxStep => rxRead' = rxRead + tick'.read
  /\ BoundTxrxStep =>
        /\ tick'.read = (IF Available > 0 /\ _i < BUFFER_SIZE THEN 1 ELSE 0)
        /\ tick'.read = 1 =>
              /\ rxRead < (IF scn.loop THEN Len(wire) ELSE arrived)
              /\ _in'[_i] = Input[rxRead + 1]
        /\ Available' >= Available - tick'.read

C11_OneRead == [](rxRead <= Len(Input)) /\ [][C11_Step]_vars

\* a txrx call has just read one byte and left another one, which was
\* available when it began, unread
C11_Witness == ~scn.loop /\ tick.read = 1 /\ Available = 1

\* --------------------------------------------------------------------- C12
\* C12 as stated: in every reachable state, the states between two txrx
\* calls included, the inbound index satisfies 0 <= _i < BUFFER_SIZE.
C12_AsStated == _i \in 0..(BUFFER_SIZE - 1)

\* C12 (amended): in every reachable state 0 <= _i <= BUFFER_SIZE.  A byte
\* is stored only at an index below BUFFER_SIZE, and is stored whenever one
\* is available at such an index.  _i = BUFFER_SIZE is reached only by
\* storing a byte at index BUFFER_SIZE - 1 that completes no frame, and lasts
\* until the next txrx call, which stores nothing and resets the index to 0;
\* only txrx changes the index.
C12_Step ==
  /\ ~BoundTxrxStep => _i' = _i
  /\ BoundTxrxStep =>
        /\ tick'.read = 1 <=> (Available > 0 /\ _i < BUFFER_SIZE)
        /\ tick'.read = 1 => _i' \in {0, _i + 1}
        /\ tick'.read = 0 => _i' = (IF _i = BUFFER_SIZE THEN 0 ELSE _i)
        /\ \A k \in 0..(BUFFER_SIZE - 1) :
              _in'[k] # _in[k] => (tick'.read = 1 /\ k <= _i)
        /\ _i' = BUFFER_SIZE => (_i = BUFFER_SIZE - 1 /\ tick'.read = 1)

C12_IndexBound ==
  [](_i \in 0..BUFFER_SIZE /\ DOMAIN _in = 0..(BUFFER_SIZE - 1))
    /\ [][C12_Step]_vars

\* between two txrx calls the inbound index equals BUFFER_SIZE
C12_Witness == _i = BUFFER_SIZE /\ tick.read = 1 /\ tick.kind = "byte"

\* --------------------------------------------------------------------- C13
\* the frame of the head entry, as the transmit step sends it
HeadFrame ==
  CHOOSE f \in
    {m \o (IF _useChecksum THEN <<checkSum(m)>> ELSE <<>>)
       \o <<MSG_END_A, MSG_END_B>> : m \in {CStr(_ob[_out[0]])}} : TRUE

\* the head frame is fully written: the next call dequeues it
DequeueDue == _txlen > 0 /\ _txb = _txlen

\* C13 as stated: txrx calls read() only when a byte is available and
\* write() only when the port has write capacity; a call made with a
\* non-empty queue and no write capacity writes nothing and leaves the queue
\* and the transmit offset unchanged.
C13_AsStatedStep ==
  BoundTxrxStep =>
     /\ tick'.read = 1 => Available > 0
     /\ tick'.wrote = 1 => tick'.cap > 0
     /\ (_o > 0 /\ tick'.cap = 0) =>
           (tick'.wrote = 0 /\ UNCHANGED <<_o, _out, _txb>>)

C13_AsStated == [][C13_AsStatedStep]_vars

\* C13 (amended): txrx calls read() only when a byte is available and
\* write() only when the port has write capacity.  A call made with a
\* non-empty queue whose head frame has unsent bytes and no write capacity
\* writes nothing and leaves the entries already queued, their slots and the
\* transmit offset unchanged (its receive step may append warnings behind
\* them); the pending byte is the one a later call with write capacity
\* writes.  A call that finds the head frame fully written dequeues it
\* whether or not the port has write capacity.
C13_Step ==
  /\ TxrxStep => tick'.wrote = Len(wire') - Len(wire)
  /\ BoundTxrxStep =>
        /\ tick'.read = 1 => Available > 0
        /\ tick'.wrote = 1 =>
              /\ tick'.cap > 0
              /\ wire' = Append(wire, HeadFrame'[_txb + 1])
        /\ (_o > 0 /\ ~DequeueDue /\ tick'.cap = 0) =>
              /\ tick'.wrote = 0
              /\ _txb' = _txb /\ _o' = _o + tick'.diag
              /\ \A k \in 0..(_o - 1) :
                    _out'[k] = _out[k] /\ _ob'[_out[k]] = _ob[_out[k]]
              /\ _txb' < _txlen'
        /\ (_o > 0 /\ ~DequeueDue /\ tick'.cap > 0) =>
              (tick'.wrote = 1 /\ _txb' = _txb + 1)
        /\ (_o > 0 /\ DequeueDue) =>
              (tick'.wrote = 0 /\ _o' = tick'.oRx - 1 /\ _txb' = 0)

C13_NonBlocking == [][C13_Step]_vars

\* a txrx call found a frame partly sent and no write capacity: it wrote
\* nothing and the byte is still pending
C13_Witness ==
  /\ tick.kind \notin {"none", "noport"} /\ tick.oRx > 0 /\ tick.cap = 0
  /\ tick.wrote = 0 /\ _txb > 0 /\ _txb < _txlen

\* --------------------------------------------------------------------- C14
\* C14: checkSum(P) equals the sum of the byte values of P modulo 256 for
\* every byte sequence P without NUL, bytes taken as unsigned values 0..255,
\* and 0 for the empty sequence; the call modifies no state of the object.
C14_SumState ==
  /\ (\A k \in 1..Len(sumArg) : sumArg[k] # 0) =>
        sumRet = SumBytes(sumArg) % 256
  /\ sumArg = <<>> => sumRet = 0
  /\ sumRet \in 0..255

C14_CheckSum ==
  []C14_SumState /\ [][UNCHANGED <<objVars, envVars, obsVars>>]_vars

\* checkSum has returned the wrapped sum of three bytes with the top bit set
C14_Witness == sumArg = <<255, 128, 255>> /\ sumRet = 126

\* --------------------------------------------------------------------- C15
\* the k-th entry of the queue (k = 0 for the head) in the order of
\* acceptance
QueuedMsg(k) == accepted[Len(accepted) - _o + 1 + k]

\* the queue holds the messages accepted last, in order, each in its slot
\* (a message of BUFFER_SIZE bytes or more has no slot that could hold it)
QueueHoldsAccepted ==
  /\ _o <= Len(accepted)
  /\ \A k \in 0..(_o - 1) :
        Len(QueuedMsg(k)) < BUFFER_SIZE =>
           (_out[k] \in Slots /\ CStr(_ob[_out[k]]) = QueuedMsg(k))

\* the warnings the receive step of this call has appended
NewDiags == SubSeq(accepted', Len(accepted) + 1, Len(accepted'))

\* C15: warnings are visible to TX in the call that produced them and never
\* earlier.  If the queue is empty when a txrx call begins, its receive step
\* appends a warning (overflow or bad checksum) and the port has write
\* capacity, the call writes the first byte of that warning.  Every byte a
\* call writes is the next unsent byte of the frame of the head entry, which
\* is a message accepted before the write: a call that begins with an empty
\* queue and appends nothing writes nothing.
C15_Step ==
  BoundTxrxStep =>
     /\ tick'.diag = Len(NewDiags)
     /\ \A k \in 1..Len(NewDiags) :
           NewDiags[k] \in {RX_BUFFER_OVERFLOW, RX_BAD_CHECKSUM}
             \/ (tick'.kind = "badsum" /\ k > 1)
     /\ (_o = 0 /\ tick'.diag > 0 /\ tick'.cap > 0) =>
           /\ tick'.wrote = 1
           /\ wire' = Append(wire, NewDiags[1][1])
           /\ CStr(_ob'[_out'[0]]) = NewDiags[1]
           /\ _txb' = 1
     /\ (_o = 0 /\ tick'.diag = 0) => tick'.wrote = 0
     /\ tick'.wrote = 1 =>
           /\ tick'.oRx > 0 /\ tick'.oRx = _o + tick'.diag
           /\ _o' = tick'.oRx
           /\ wire' = Append(wire, HeadFrame'[_txb + 1])

C15_DiagSameTick == []QueueHoldsAccepted /\ [][C15_Step]_vars

\* a txrx call that began with an empty queue has appended the overflow
\* notice and written its first byte
C15_Witness ==
  /\ tick.kind = "overflow" /\ tick.diag = 1 /\ tick.oRx = 1
  /\ tick.wrote = 1 /\ _txb = 1 /\ wire = <<RX_BUFFER_OVERFLOW[1]>>

\* --------------------------------------------------------------------- C16
\* size of the local array the checksummed payload is copied into
DATA_LEN == BUFFER_SIZE - 3

\* the byte txrx reads next completes a frame in the branch that verifies
\* the checksum
ChecksummedFrameNext ==
  /\ _port # NullPort /\ _useChecksum
  /\ _i > 2 /\ _i < BUFFER_SIZE
  /\ Available > 0 /\ Input[rxRead + 1] = MSG_END_B
  /\ _in[_i - 1] = MSG_END_A

\* C16: the checksum-enabled receive path never overruns its payload
\* scratch buffer: for every frame boundary found at an index i with
\* 2 < i <= BUFFER_SIZE - 1, the payload (the bytes of the inbound buffer
\* before the checksum byte, as a C string) together with its NUL fits in
\* the BUFFER_SIZE - 3 bytes of data[], the maximum-length payload of
\* BUFFER_SIZE - 3 bytes included.
C16_Step ==
  (TxrxStep /\ ChecksummedFrameNext) =>
     /\ Len(UpToNul(InPrefix(_i - 2))) + 1 <= DATA_LEN
     /\ "data" \notin oob'

C16_NoOverrun == []("data" \notin oob) /\ [][C16_Step]_vars

\* --------------------------------------------------------------------- C17
\* the port is bound and its line is not stalled for good
Live == _port # NullPort /\ scn.wcap > 0

\* the queue is empty and the cursor is at (0,0)
Drained == _o = 0 /\ _txb = 0 /\ _txlen = 0

\* the bytes written last are the part of the head frame already sent
HeadPartSent ==
  (_o > 0 /\ _txlen > 0) =>
     /\ _txlen = Len(HeadFrame) /\ _txb <= _txlen /\ _txb <= Len(wire)
     /\ SubSeq(wire, Len(wire) - _txb + 1, Len(wire))
          = SubSeq(HeadFrame, 1, _txb)

\* an entry leaves the queue only when its whole frame has been written
C17_Step ==
  (BoundTxrxStep /\ _o' < tick'.oRx) =>
     /\ _o > 0 /\ _txb = _txlen /\ _txlen = Len(HeadFrame)
     /\ _o' = tick'.oRx - 1 /\ _txb' = 0 /\ _txlen' = 0
     /\ \A k \in 0..(_o - 2) : _out'[k] = _out[k + 1]

\* C17: forward progress of transmission.  When txrx is called for ever and
\* the port reports write capacity again and again, every queued message has
\* its complete frame written and is then removed: from every state the
\* queue eventually becomes empty with the cursor at (0,0), also in runs
\* with receive overflows and checksum failures.
C17_Progress ==
  /\ []HeadPartSent
  /\ [][C17_Step]_vars
  /\ [](Live => <>Drained)
  /\ <>[](Live => Drained)

\* a run with a checksum failure between the application's messages has
\* written every frame and emptied the queue
C17_Witness ==
  /\ Live /\ Drained /\ Len(accepted) = 5
  /\ accepted[3] = RX_BAD_CHECKSUM
  /\ wire = Frames(accepted, _useChecksum)

\* --------------------------------------------------------------------- C18
\* the slots the live queue entries refer to
LiveSlots == {_out[k] : k \in 0..(_o - 1)}

\* the live entries refer to pairwise distinct slots: the _o slots handed
\* out last, in round-robin order; the slot sendMsg would write next is not
\* among them while the queue has room
C18_State ==
  /\ \A k \in 0..(_o - 1) :
        /\ _out[k] \in Slots
        /\ _out[k] = (_obi + TX_QUEUE_SIZE - _o + k) % TX_QUEUE_SIZE
  /\ \A j, k \in 0..(_o - 1) : j # k => _out[j] # _out[k]
  /\ Cardinality(LiveSlots) = _o
  /\ _o < TX_QUEUE_SIZE => _obi \notin LiveSlots

\* number of entries the step removes from the head of the queue
Dequeued == IF BoundTxrxStep /\ _o' < tick'.oRx THEN 1 ELSE 0

\* C18: slot non-aliasing.  In every state the live entries _out[0 .. _o-1]
\* refer to pairwise distinct slots; the slot an accepted sendMsg (the
\* application's, or a warning's) overwrites is referenced by no entry of
\* the queue, the partly transmitted head included; so an entry that stays
\* queued keeps its slot and its content, whatever the step.
C18_Step ==
  /\ \A k \in Dequeued..(_o - 1) :
        /\ _out'[k - Dequeued] = _out[k]
        /\ _ob'[_out[k]] = _ob[_out[k]]
  /\ \A s \in Slots : _ob'[s] # _ob[s] => s \notin LiveSlots
  /\ Len(accepted') > Len(accepted) =>
        /\ _o < TX_QUEUE_SIZE /\ _obi \notin LiveSlots
        /\ \A s \in Slots \ {(_obi + d) % TX_QUEUE_SIZE :
                               d \in 0..(Len(accepted') - Len(accepted) - 1)} :
              _ob'[s] = _ob[s]

C18_NoAlias == []C18_State /\ [][C18_Step]_vars

\* the queue is full after the slot pointer wrapped around: the entry
\* accepted last has reused slot 0 while three older entries were queued
C18_Witness ==
  /\ lastRet = 1 /\ _o = TX_QUEUE_SIZE
  /\ _out[0] = 1 /\ _out[TX_QUEUE_SIZE - 1] = 0

\* --------------------------------------------------------------------- C19
\* the highest index of _out the dequeue loop reads when the queue holds o
\* entries: for (_m = 1; _m <= _o; _m++) reads _out[_m]
MaxShiftIndex(o) == o

\* C19: the dequeue step only accesses _out at indices 0 .. TX_QUEUE_SIZE-1,
\* for every queue size 1 <= _o <= TX_QUEUE_SIZE at which a dequeue can
\* happen, a completely full queue included.
C19_Step ==
  (BoundTxrxStep /\ Dequeued = 1) =>
     /\ tick'.oRx \in 1..TX_QUEUE_SIZE
     /\ MaxShiftIndex(tick'.oRx) <= TX_QUEUE_SIZE - 1
     /\ "_out" \notin oob'

C19_ShiftInBounds == []("_out" \notin oob) /\ [][C19_Step]_vars

\* --------------------------------------------------------------------- C20
\* C20: on a checksum mismatch the report of the received checksum,
\* "!got [" + its decimal value + "]" with the NUL terminator, fits in the
\* SUM_LEN bytes of sum[], for every received checksum value 0..255.
C20_Step ==
  (TxrxStep /\ BadFrameNext) =>
     /\ Len(GotStr(_in[_i - 2])) + 1 <= SUM_LEN
     /\ "sum" \notin oob'

C20_ReportFits == []("sum" \notin oob) /\ [][C20_Step]_vars

====
